---- MODULE Spec2Model ----
(***************************************************************************)
(* A model of MinecraftLauncher-core: MCLCore.launch (launcher.js) and the *)
(* Handler it drives (handler.js).                                         *)
(*                                                                         *)
(* Spec       the launch pipeline: Java probe, version resolver, native,   *)
(*            client-jar, library and asset materializers, the fetcher     *)
(*            (downloadAsync) with its request and write-stream events,    *)
(*            and the spawn of the game.                                   *)
(* SpecRules  parseRule and its callers in getNatives and getClasses, on   *)
(*            every library shape and operating system.                    *)
(* SpecClassPath  cleanUp and the classpath composition of launch.         *)
(* SpecArgs   getLaunchOptions on every descriptor shape.                  *)
(* SpecForge  the forge and custom-version steps of launch and what they   *)
(*            hand to the classpath, the main class and the arguments.     *)
(* SpecLibraries  downloadToDirectory on a list of libraries whose         *)
(*            existence checks and downloads run in parallel.              *)
(* SpecProgress  the progress counter of handler.js under several launches *)
(*            in one process.                                              *)
(* SpecLive   Spec under the scheduling of the event loop.                 *)
(***************************************************************************)
EXTENDS Naturals, Sequences, FiniteSets

\* ------------------------------------------------------------------ bounds

\* Native archives selected by getNatives, libraries of the descriptor, and
\* objects of the asset index.
NumNatives == 2
NumLibs == 1
NumAssets == 1
\* Faults the environment may inject in one execution (404, transport error,
\* write-stream error, corrupted body, manifest error).
MaxFaults == 2
\* Launches performed in one process.
MaxRuns == 2

\* overrides.maxSockets || 2
DefaultMaxSockets == 2

\* ------------------------------------------------------------------- files

PackageFile == <<"package", 0>>
JarFile == <<"jar", 0>>
IndexFile == <<"index", 0>>
NativeFiles == {<<"native", i>> : i \in 1..NumNatives}
LibFiles == {<<"lib", i>> : i \in 1..NumLibs}
AssetFiles == {<<"asset", i>> : i \in 1..NumAssets}
\* The files the materializers run one async task for (the Promise.all maps).
Items == NativeFiles \cup LibFiles \cup AssetFiles
Files == Items \cup {PackageFile, JarFile, IndexFile}

VARIABLES
  opts,          \* the launch options that select pipeline steps
  cleanStart,    \* this launch started on the disk a complete launch leaves
  profile,       \* root/launcher_profiles.json exists
  pc,            \* where MCLCore.launch stands
  run,           \* number of the launch in this process
  java,          \* launch's `java` (result of checkJava): "none", "ok", "failed"
  installerCode, \* exit code of the installer subprocess: "none", "0", "1"
  steps,         \* pipeline steps this launch has performed
  emitted,       \* events emitted to the caller by this launch
  rootExists,    \* options.root exists on disk
  versionJson,   \* versions/<id>/<id>.json exists and parses
  fs,            \* content of each file: "absent", "good" (sha1 matches), "bad"
  nativesDir,    \* natives/<id>: "absent", "empty", "extracted"
  version,       \* handler.version: "none", "local", "remote"
  versionFile,   \* what getVersion's promise resolved with: "none" = pending
  gv,            \* where getVersion stands
  task,          \* where each materializer task stands
  calls,         \* downloadAsync calls per destination file, in call order
  counter,       \* handler.js module-level progress counter
  libs,          \* downloadToDirectory's libs array (push order)
  requested,     \* kinds of network request issued by this launch
  faults,        \* faults injected so far
  \* the rule evaluator and its two callers, on one library
  os,            \* getOS(): "windows", "osx" or "linux"
  lib,           \* a library entry of the descriptor
  native,        \* what getNatives' filter did with lib
  parsed,        \* what getClasses' filter did with lib
  \* classpath composition
  cpIn,          \* the layering mode and the path lists it starts from
  classes,       \* launch's `classes`
  classPath,     \* the entries of the string pushed after -cp
  \* game-argument synthesis
  argIn,         \* the descriptors and options getLaunchOptions reads
  launchOptions, \* the list getLaunchOptions returns
  \* forge layering
  forgeIn,       \* what options.forge names and the custom-version options
  fpc,           \* where launch stands between the forge step and the spawn
  forge,         \* launch's `forge`: "null", "false" or "deps" ({paths, forge})
  custom,        \* launch's `custom`: "null", "function" or a descriptor
  forgeWrapper,  \* the ForgeWrapper subprocess: "notrun" or "done"
  overlay,       \* the descriptor whose libraries are laid over the vanilla ones
  mainClass,     \* the descriptor whose mainClass follows the classpath
  modification,  \* the descriptor getLaunchOptions takes the game arguments from
  \* downloadToDirectory on a list of libraries
  libraries,     \* the list handed to downloadToDirectory
  libTask,       \* where the map callback of each entry stands
  \* the progress counter under several launches
  phase,         \* the phase each launch has come to
  phaseRunning,  \* the tasks of that phase have been started
  pending,       \* tasks of each launch's phase that have not finished
  progressTask   \* `task` of the last progress event of each launch's phase

\* The launcher's own state, the resolver's, and the disk outside the fetched files.
launchV == <<opts, cleanStart, pc, run, java, installerCode, steps, emitted>>
resolverV == <<version, versionFile, gv>>
diskV == <<profile, rootExists, versionJson, nativesDir>>

pipelineVars == <<launchV, resolverV, diskV, fs, task, calls, counter, libs, requested, faults>>
ruleVars == <<os, lib, native, parsed>>
cpVars == <<cpIn, classes, classPath>>
argVars == <<argIn, launchOptions>>
forgeVars == <<forgeIn, fpc, forge, custom, forgeWrapper, overlay, mainClass, modification>>

libraryVars == <<libraries, libTask>>

progressVars == <<phase, phaseRunning, pending, progressTask>>

vars == <<pipelineVars, ruleVars, cpVars, argVars, forgeVars, libraryVars, progressVars>>

\* --------------------------------------------------------------- the fetcher

\* handler.js:21: the pool size of baseRequest.
MaxSockets == DefaultMaxSockets

\* A request holds a socket from the moment it is sent until it ends or fails.
ReqActive(c) == c.req \in {"sent", "body404"}

\* The write stream of a call is open (createWriteStream) until it finishes or errors.
StreamOpen(c) == ~c.fileErr /\ c.req # "ended"

\* A call is settled when its promise is resolved and nothing of it is running.
CallSettled(c) == c.resolved /\ c.req \in {"ended", "failed"}

CallIds(f) == 1..Len(calls[f])

AllCalls == UNION {{<<f, i>> : i \in CallIds(f)} : f \in Files}

PooledInFlight == Cardinality({k \in AllCalls : ReqActive(calls[k[1]][k[2]])})

\* Requests made with the bare `request.get`, outside baseRequest's pool.
UnpooledInFlight == IF gv \in {"manifest", "descriptor"} THEN 1 ELSE 0

InFlight == PooledInFlight + UnpooledInFlight

\* The kind of request a file's download is, for the `requested` history.
KindOf(f) == f[1]

\* handler.js:44-49, 79-80: a new call: request created (sent at once when the
\* pool has a free socket, queued otherwise), write stream opened on
\* directory/name, which creates or truncates the file.
NewCall(retry, parent, socket) ==
  [retry |-> retry, parent |-> parent, req |-> IF socket THEN "sent" ELSE "queued",
   fileErr |-> FALSE, live |-> TRUE, resolved |-> FALSE, val |-> "none"]

\* The requests of the call sequence cs that hold a socket.
ActiveIn(cs) == Cardinality({j \in 1..Len(cs) : ReqActive(cs[j])})

\* The index of the last call on f made by a materializer (not a retry).
LastTop(cs) == CHOOSE i \in 1..Len(cs) : cs[i].parent = 0 /\ \A j \in 1..Len(cs) : cs[j].parent = 0 => j <= i

HasTop(cs) == \E i \in 1..Len(cs) : cs[i].parent = 0

\* The promise a materializer awaits on f is resolved.
Resolved(f) == HasTop(calls[f]) /\ calls[f][LastTop(calls[f])].resolved

\* The value that promise resolved with: "ok" ({failed: false}), "false" (404), "undef".
Value(f) == calls[f][LastTop(calls[f])].val

\* resolve(v) on call i of sequence cs: the first resolve wins; a retry's resolve
\* lets the parent's handler run on to its own resolve() (handler.js:65-66, 94-95).
ResolveIn(cs, i, v) ==
  LET c == cs[i]
      cs1 == IF c.resolved THEN cs ELSE [cs EXCEPT ![i].resolved = TRUE, ![i].val = v]
      p == c.parent
  IN IF p # 0 /\ ~cs1[p].resolved
       THEN [cs1 EXCEPT ![p].resolved = TRUE, ![p].val = "undef"]
       ELSE cs1

\* Another call's stream is writing a 404 body into the same, still linked, file.
CoWriter404(f, i) ==
  \E j \in CallIds(f) : j # i /\ calls[f][j].req = "body404" /\ StreamOpen(calls[f][j]) /\ calls[f][j].live

\* The pool grants a queued request a socket (request.defaults pool, handler.js:20-23).
StartRequest(f, i) ==
  /\ calls[f][i].req = "queued"
  /\ PooledInFlight < MaxSockets
  /\ calls' = [calls EXCEPT ![f][i].req = "sent"]
  /\ UNCHANGED <<launchV, resolverV, diskV, fs, task, counter, libs, requested, faults>>

\* handler.js:53-57: 'response' with status 404: resolve(false); the request is
\* neither aborted nor unpiped, so the 404 body goes on into the file.
Response404(f, i) ==
  /\ calls[f][i].req = "sent"
  /\ faults < MaxFaults
  /\ faults' = faults + 1
  /\ calls' = [calls EXCEPT ![f] = ResolveIn([@ EXCEPT ![i].req = "body404"], i, "false")]
  /\ UNCHANGED <<launchV, resolverV, diskV, fs, task, counter, libs, requested>>

\* What the file holds once a stream has written its last byte.
Written(f, i, corrupt) ==
  LET c == calls[f][i] IN
  IF ~c.live THEN {fs[f]}
  ELSE IF c.req = "body404" THEN (IF fs[f] = "good" THEN {"good", "bad"} ELSE {"bad"})
  ELSE IF corrupt THEN {"bad"}
  ELSE IF CoWriter404(f, i) THEN {"good", "bad"}
  ELSE {"good"}

\* handler.js:53-60, 69-88: a response with a status other than 404 arrives and
\* its body is piped into the file, or the body of a 404 response comes to its
\* end; the pipe ends the write stream, 'finish' fires: emit download,
\* resolve({failed: false}). An errored stream never finishes.
RequestEnd(f, i, corrupt) ==
  LET c == calls[f][i] IN
  /\ c.req \in {"sent", "body404"}
  /\ corrupt => c.req = "sent" /\ ~c.fileErr /\ c.live /\ faults < MaxFaults
  /\ faults' = IF corrupt THEN faults + 1 ELSE faults
  /\ IF c.fileErr
       THEN /\ calls' = [calls EXCEPT ![f][i].req = "ended"]
            /\ fs' = fs
       ELSE /\ calls' = [calls EXCEPT ![f] = ResolveIn([@ EXCEPT ![i].req = "ended"], i, "ok")]
            /\ \E w \in Written(f, i, corrupt) : fs' = [fs EXCEPT ![f] = w]
  /\ UNCHANGED <<launchV, resolverV, diskV, task, counter, libs, requested>>

\* Unlinking a file detaches every stream open on it.
Unlinked(cs) == [j \in 1..Len(cs) |-> [cs[j] EXCEPT !.live = FALSE]]

\* handler.js:65, 94: if (retry) await this.downloadAsync(url, directory, name, false, type)
Retry(cs, i, others) == Append(cs, NewCall(FALSE, i, others + ActiveIn(cs) < MaxSockets))

\* handler.js:62-67: the request's 'error' handler: retry once if asked, then resolve().
\* The partial file is left as it is.
RequestErrorHandler(cs, i, others) ==
  IF cs[i].retry THEN Retry(cs, i, others) ELSE ResolveIn(cs, i, "undef")

\* The retry's createWriteStream (handler.js:79) creates the file, or truncates
\* what is there.
RequestError(f, i) ==
  /\ ReqActive(calls[f][i])
  /\ faults < MaxFaults
  /\ faults' = faults + 1
  /\ calls' = [calls EXCEPT ![f] = RequestErrorHandler([@ EXCEPT ![i].req = "failed"], i,
                                                      PooledInFlight - ActiveIn(calls[f]))]
  /\ fs' = IF calls[f][i].retry THEN [fs EXCEPT ![f] = "bad"] ELSE fs
  /\ UNCHANGED <<launchV, resolverV, diskV, task, counter, libs, requested>>

\* handler.js:90-96: the write stream's 'error' handler: remove the file if it
\* exists, retry once if asked, then resolve().
FileErrorHandler(cs, i, others) ==
  IF cs[i].retry THEN Retry(Unlinked(cs), i, others) ELSE ResolveIn(Unlinked(cs), i, "undef")

FileError(f, i) ==
  /\ StreamOpen(calls[f][i])
  /\ faults < MaxFaults
  /\ faults' = faults + 1
  /\ calls' = [calls EXCEPT ![f] = FileErrorHandler([@ EXCEPT ![i].fileErr = TRUE], i,
                                                   PooledInFlight - ActiveIn(calls[f]))]
  /\ fs' = [fs EXCEPT ![f] = IF calls[f][i].retry THEN "bad" ELSE "absent"]
  /\ UNCHANGED <<launchV, resolverV, diskV, task, counter, libs, requested>>

\* One step of the fetcher: a pool grant or an event of some call.
downloadAsync ==
  \E k \in AllCalls :
    \/ StartRequest(k[1], k[2])
    \/ Response404(k[1], k[2])
    \/ \E corrupt \in BOOLEAN : RequestEnd(k[1], k[2], corrupt)
    \/ RequestError(k[1], k[2])
    \/ FileError(k[1], k[2])

\* ------------------------------------------------------------ the launcher

\* Start a download of each file of S: downloadAsync(url, dir, name, true, type).
StartDownloads(S) ==
  /\ calls' = [f \in Files |->
                IF f \in S
                  THEN Append(calls[f], NewCall(TRUE, 0,
                         PooledInFlight + Cardinality({g \in S : g[2] < f[2]}) < MaxSockets))
                  ELSE calls[f]]
  /\ fs' = [f \in Files |-> IF f \in S THEN "bad" ELSE fs[f]]
  /\ requested' = requested \cup {KindOf(f) : f \in S}

\* JavaFailed without its `return null`: close(1) is emitted and launch goes on.
JavaFailedNoReturn ==
  /\ emitted' = emitted \cup {"close1"}
  /\ pc' = "mkdir"

\* launcher.js:42-46: the probe failed: emit close(1), return null.
JavaFailed ==
  /\ emitted' = emitted \cup {"close1"}
  /\ pc' = "aborted"

\* launcher.js:41-46 with handler.js:26-42: probe the Java executable.
checkJava ==
  /\ pc = "start"
  /\ steps' = steps \cup {"checkJava"}
  /\ \E ok \in BOOLEAN :
       IF ok THEN java' = "ok" /\ pc' = "mkdir" /\ emitted' = emitted
             ELSE java' = "failed" /\ JavaFailed
  /\ UNCHANGED <<opts, cleanStart, run, installerCode, resolverV, diskV, fs, task, calls, counter, libs,
                 requested, faults>>

\* launcher.js:48-50: create the root directory (an existing one is tolerated).
MkdirRoot ==
  /\ pc = "mkdir"
  /\ rootExists' = TRUE
  /\ steps' = steps \cup {"mkdir"}
  /\ IF opts.clientPackage = "none" THEN pc' = "installer" ELSE pc' = "package"
  /\ UNCHANGED <<opts, cleanStart, run, java, installerCode, emitted, resolverV, profile, versionJson,
                 nativesDir, fs, task, calls, counter, libs, requested, faults>>

\* launcher.js:52-55, handler.js:570-574: a client package given as a URL is fetched first.
ExtractPackageFetch ==
  /\ pc = "package"
  /\ opts.clientPackage = "url"
  /\ StartDownloads({PackageFile})
  /\ steps' = steps \cup {"package"}
  /\ pc' = "packageDl"
  /\ UNCHANGED <<opts, cleanStart, run, java, installerCode, emitted, resolverV, diskV, task, counter,
                 libs, faults>>

\* handler.js:575-578: unzip the package into root; a package that is no zip raises.
ExtractPackage ==
  /\ \/ pc = "package" /\ opts.clientPackage = "path"
     \/ pc = "packageDl" /\ Resolved(PackageFile)
  /\ steps' = steps \cup {"package"}
  /\ IF opts.clientPackage = "url" /\ fs[PackageFile] # "good"
       THEN pc' = "raised" /\ emitted' = emitted
       ELSE pc' = "installer" /\ emitted' = emitted \cup {"package-extract"}
  /\ UNCHANGED <<opts, cleanStart, run, java, installerCode, resolverV, diskV, fs, task, calls, counter,
                 libs, requested, faults>>

\* launcher.js:57-62, handler.js:399-404: the installer runs to its close event;
\* runInstaller resolves whatever the exit code. A missing launcher_profiles.json
\* is written with fsPromises.writeFileSync, which is not a function: the call raises.
runInstaller ==
  /\ pc = "installer"
  /\ IF ~opts.installer
       THEN pc' = "getVersion" /\ UNCHANGED <<installerCode, steps>>
       ELSE IF ~profile
         THEN pc' = "raised" /\ UNCHANGED <<installerCode, steps>>
         ELSE /\ \E code \in {"0", "1"} : installerCode' = code
              /\ steps' = steps \cup {"installer"}
              /\ pc' = "getVersion"
  /\ UNCHANGED <<opts, cleanStart, run, java, emitted, resolverV, diskV, fs, task, calls, counter, libs,
                 requested, faults>>

\* --------------------------------------------------------- version resolver

\* resolve(v) of getVersion's promise: the first call decides what launch receives.
ResolveVersion(v) == versionFile' = IF versionFile = "none" THEN v ELSE versionFile

\* launcher.js:64-67: launch calls getVersion and awaits its promise.
CallGetVersion ==
  /\ pc = "getVersion"
  /\ gv = "idle"
  /\ gv' = "read"
  /\ steps' = steps \cup {"getVersion"}
  /\ pc' = "awaitVersion"
  /\ UNCHANGED <<opts, cleanStart, run, java, installerCode, emitted, version, versionFile, diskV, fs, task,
                 calls, counter, libs, requested, faults>>

\* handler.js:115-123: read the local descriptor JSON. When it is there:
\* this.version = the parsed file, resolve(this.version); the `return` leaves only
\* the then-callback, so the executor goes on to request the manifest
\* (request.get, not baseRequest). When it is not there: .catch() has no handler,
\* the await throws inside the async executor and the promise is never resolved.
getVersionRead ==
  /\ gv = "read"
  /\ IF versionJson
       THEN /\ version' = "local"
            /\ ResolveVersion("local")
            /\ gv' = "manifest"
            /\ requested' = requested \cup {"manifest"}
       ELSE /\ gv' = "rejected"
            /\ UNCHANGED <<version, versionFile, requested>>
  /\ UNCHANGED <<launchV, diskV, fs, task, calls, counter, libs, faults>>

\* handler.js:124-140: the manifest callback. With an entry whose id is
\* version.number it requests the entry's url; without one it does nothing more.
\* On an error it calls resolve(error) and then JSON.parse(undefined) throws in the callback.
getVersionManifest ==
  /\ gv = "manifest"
  /\ \E outcome \in {"entry", "noentry", "error"} :
       /\ outcome = "error" => faults < MaxFaults
       /\ faults' = IF outcome = "error" THEN faults + 1 ELSE faults
       /\ gv' = CASE outcome = "entry" -> "descriptor"
                  [] outcome = "noentry" -> "done"
                  [] OTHER -> "threw"
       /\ requested' = IF outcome = "entry" THEN requested \cup {"descriptor"} ELSE requested
       /\ IF outcome = "error" THEN ResolveVersion("error") ELSE versionFile' = versionFile
  /\ UNCHANGED <<launchV, version, diskV, fs, task, calls, counter, libs>>

\* handler.js:131-137: the descriptor callback: this.version = JSON.parse(body),
\* resolve(this.version); on an error resolve(error), then JSON.parse(undefined) throws.
getVersionDescriptor ==
  /\ gv = "descriptor"
  /\ \E ok \in BOOLEAN :
       /\ ~ok => faults < MaxFaults
       /\ faults' = IF ok THEN faults ELSE faults + 1
       /\ IF ok THEN version' = "remote" /\ ResolveVersion("remote") /\ gv' = "done"
               ELSE version' = version /\ ResolveVersion("error") /\ gv' = "threw"
  /\ UNCHANGED <<launchV, diskV, fs, task, calls, counter, libs, requested>>

\* launcher.js:67: the await of getVersion returns.
AwaitVersion ==
  /\ pc = "awaitVersion"
  /\ versionFile # "none"
  /\ pc' = "getNatives"
  /\ UNCHANGED <<opts, cleanStart, run, java, installerCode, steps, emitted, resolverV, diskV, fs, task,
                 calls, counter, libs, requested, faults>>

\* ------------------------------------------------------- native materializer

\* handler.js:244: `fsPromises.readdir(nativeDirectory).length` is the length
\* property of a Promise, undefined whatever the directory holds.
ReaddirLengthTruthy == FALSE

\* handler.js:244: the guard of the native phase.
NativePhaseRuns == nativesDir = "absent" \/ ~ReaddirLengthTruthy

\* handler.js:241-272: getNatives reads this.version.id (a TypeError without a
\* descriptor), creates the directory and starts one task per selected native
\* archive; each task runs on to its first download.
getNatives ==
  /\ pc = "getNatives"
  /\ steps' = steps \cup {"getNatives"}
  /\ IF version = "none"
       THEN pc' = "raised" /\ UNCHANGED <<nativesDir, task, calls, fs, requested>>
       ELSE IF NativePhaseRuns
         THEN /\ nativesDir' = IF nativesDir = "absent" THEN "empty" ELSE nativesDir
              /\ StartDownloads(NativeFiles)
              /\ task' = [f \in Items |-> IF f \in NativeFiles THEN "dl1" ELSE task[f]]
              /\ pc' = "natives"
         ELSE /\ pc' = "natives"
              /\ task' = [f \in Items |-> IF f \in NativeFiles THEN "done" ELSE task[f]]
              /\ UNCHANGED <<nativesDir, calls, fs, requested>>
  /\ UNCHANGED <<opts, cleanStart, run, java, installerCode, emitted, resolverV, profile, rootExists,
                 versionJson, counter, libs, faults>>

\* handler.js:276-292: extract (an error is only warned about), remove the
\* archive, counter++. An archive with another SHA-1 is extracted all the same
\* when it is a readable zip.
NativeExtract(f) ==
  /\ nativesDir' \in (IF fs[f] = "good" THEN {"extracted"} ELSE {nativesDir, "extracted"})
  /\ fs' = [fs EXCEPT ![f] = "absent"]
  /\ calls' = [calls EXCEPT ![f] = Unlinked(@)]
  /\ counter' = counter + 1
  /\ task' = [task EXCEPT ![f] = "done"]
  /\ UNCHANGED <<profile, rootExists, versionJson, requested>>

\* handler.js:269-292: one native archive's task. After the download, checkSum;
\* on a mismatch (or an unreadable file) download once more, this time without a
\* check afterwards; then extract and remove.
NativeTask(f) ==
  /\ f \in NativeFiles
  /\ Resolved(f)
  /\ \/ /\ task[f] = "dl1"
        /\ IF fs[f] = "good"
             THEN NativeExtract(f)
             ELSE /\ task' = [task EXCEPT ![f] = "dl2"]
                  /\ StartDownloads({f})
                  /\ UNCHANGED <<diskV, counter>>
     \/ /\ task[f] = "dl2"
        /\ NativeExtract(f)
  /\ UNCHANGED <<launchV, resolverV, libs, faults>>

\* handler.js:293-300: Promise.all returns, counter = 0, return nativeDirectory.
NativesDone ==
  /\ pc = "natives"
  /\ \A f \in NativeFiles : task[f] = "done"
  /\ counter' = 0
  /\ pc' = "jarCheck"
  /\ UNCHANGED <<opts, cleanStart, run, java, installerCode, steps, emitted, resolverV, diskV, fs, task,
                 calls, libs, requested, faults>>

\* --------------------------------------------------------------- client jar

\* launcher.js:73-76, handler.js:144-145: fetch the client jar when mcPath is missing.
getJar ==
  /\ pc = "jarCheck"
  /\ IF fs[JarFile] = "absent"
       THEN StartDownloads({JarFile}) /\ pc' = "jar" /\ steps' = steps \cup {"getJar"}
       ELSE pc' = "classes" /\ UNCHANGED <<calls, fs, requested, steps>>
  /\ UNCHANGED <<opts, cleanStart, run, java, installerCode, emitted, resolverV, diskV, task, counter,
                 libs, faults>>

\* handler.js:147-149: after the download, write the descriptor JSON beside the jar.
JarDone ==
  /\ pc = "jar"
  /\ Resolved(JarFile)
  /\ versionJson' = TRUE
  /\ pc' = "classes"
  /\ UNCHANGED <<opts, cleanStart, run, java, installerCode, steps, emitted, resolverV, profile,
                 rootExists, nativesDir, fs, task, calls, counter, libs, requested, faults>>

\* ------------------------------------------------------ library materializer

\* handler.js:446-462, 406-409: getClasses hands the descriptor's libraries to
\* downloadToDirectory, which starts one task per library.
getClasses ==
  /\ pc = "classes"
  /\ steps' = steps \cup {"getClasses"}
  /\ libs' = <<>>
  /\ task' = [f \in Items |-> IF f \in LibFiles THEN "check" ELSE task[f]]
  /\ pc' = "classesRun"
  /\ UNCHANGED <<opts, cleanStart, run, java, installerCode, emitted, resolverV, diskV, fs, calls, counter,
                 requested, faults>>

\* handler.js:433-439: counter++, progress, libs.push(path).
LibPush(f) ==
  /\ counter' = counter + 1
  /\ libs' = Append(libs, f)
  /\ task' = [task EXCEPT ![f] = "done"]

\* handler.js:423-431: download the jar unless it exists.
downloadToDirectory(f) ==
  /\ f \in LibFiles
  /\ \/ /\ task[f] = "check"
        /\ IF fs[f] = "absent"
             THEN /\ StartDownloads({f})
                  /\ task' = [task EXCEPT ![f] = "dl"]
                  /\ UNCHANGED <<counter, libs>>
             ELSE LibPush(f) /\ UNCHANGED <<calls, fs, requested>>
     \/ /\ task[f] = "dl"
        /\ Resolved(f)
        /\ LibPush(f)
        /\ UNCHANGED <<calls, fs, requested>>
  /\ UNCHANGED <<launchV, resolverV, diskV, faults>>

\* handler.js:440-443, 462-466: Promise.all returns, counter = 0, return libs.
ClassesDone ==
  /\ pc = "classesRun"
  /\ \A f \in LibFiles : task[f] = "done"
  /\ counter' = 0
  /\ pc' = "assets"
  /\ UNCHANGED <<opts, cleanStart, run, java, installerCode, steps, emitted, resolverV, diskV, fs, task,
                 calls, libs, requested, faults>>

\* -------------------------------------------------------- asset materializer

\* handler.js:152-157: fetch the asset index unless it exists.
getAssets ==
  /\ pc = "assets"
  /\ steps' = steps \cup {"getAssets"}
  /\ IF fs[IndexFile] = "absent"
       THEN StartDownloads({IndexFile}) /\ pc' = "index"
       ELSE pc' = "indexRead" /\ UNCHANGED <<calls, fs, requested>>
  /\ UNCHANGED <<opts, cleanStart, run, java, installerCode, emitted, resolverV, diskV, task, counter,
                 libs, faults>>

\* handler.js:159-167: JSON.parse of the index file (it raises on a missing or
\* malformed file), then one task per object.
AssetIndexRead ==
  /\ \/ pc = "index" /\ Resolved(IndexFile)
     \/ pc = "indexRead"
  /\ IF fs[IndexFile] = "good"
       THEN /\ task' = [f \in Items |-> IF f \in AssetFiles THEN "check" ELSE task[f]]
            /\ pc' = "assetsRun"
       ELSE pc' = "raised" /\ task' = task
  /\ UNCHANGED <<opts, cleanStart, run, java, installerCode, steps, emitted, resolverV, diskV, fs, calls,
                 counter, libs, requested, faults>>

\* handler.js:172: an object is fetched when its file is missing or its checksum differs.
AssetNeedsFetch(f) == fs[f] = "absent" \/ fs[f] # "good"

\* handler.js:168-181: one object's task: fetch if needed, then counter++ and
\* progress; the fetched file is not checked again.
AssetTask(f) ==
  /\ f \in AssetFiles
  /\ \/ /\ task[f] = "check"
        /\ IF AssetNeedsFetch(f)
             THEN StartDownloads({f}) /\ task' = [task EXCEPT ![f] = "dl"]
             ELSE task' = [task EXCEPT ![f] = "done"] /\ UNCHANGED <<calls, fs, requested>>
        /\ counter' = counter
     \/ /\ task[f] = "dl"
        /\ Resolved(f)
        /\ counter' = counter + 1
        /\ task' = [task EXCEPT ![f] = "done"]
        /\ UNCHANGED <<calls, fs, requested>>
  /\ UNCHANGED <<launchV, resolverV, diskV, libs, faults>>

\* handler.js:182-183, 218-220: Promise.all returns, counter = 0.
AssetsDone ==
  /\ pc = "assetsRun"
  /\ \A f \in AssetFiles : task[f] = "done"
  /\ counter' = 0
  /\ pc' = "launchOptions"
  /\ UNCHANGED <<opts, cleanStart, run, java, installerCode, steps, emitted, resolverV, diskV, fs, task,
                 calls, libs, requested, faults>>

\* ------------------------------------------------------------------- spawn

\* launcher.js:131-143: synthesize the arguments, emit them, spawn the game.
Spawn ==
  /\ pc = "launchOptions"
  /\ emitted' = emitted \cup {"arguments"}
  /\ steps' = steps \cup {"spawn"}
  /\ pc' = "spawned"
  /\ UNCHANGED <<opts, cleanStart, run, java, installerCode, resolverV, diskV, fs, task, calls, counter,
                 libs, requested, faults>>

\* Every file a launch materializes and keeps is present with the right content:
\* the descriptor JSON, the client jar, the libraries, the asset index and the
\* asset objects; the natives directory holds extracted natives.
CleanDisk ==
  /\ versionJson
  /\ nativesDir = "extracted"
  /\ \A f \in {JarFile, IndexFile} \cup LibFiles \cup AssetFiles : fs[f] = "good"

\* Nothing of the finished launch is still running.
Quiescent ==
  /\ \A k \in AllCalls : CallSettled(calls[k[1]][k[2]])
  /\ gv \in {"idle", "done"}

\* The caller launches again with the same options: launcher.js:13-36 builds a
\* new Handler; the disk and the module-level counter are what the last launch left.
Relaunch ==
  /\ pc = "spawned"
  /\ run < MaxRuns
  /\ Quiescent
  /\ run' = run + 1
  /\ pc' = "start"
  /\ java' = "none"
  /\ installerCode' = "none"
  /\ steps' = {}
  /\ emitted' = {}
  /\ version' = "none"
  /\ versionFile' = "none"
  /\ gv' = "idle"
  /\ task' = [f \in Items |-> "idle"]
  /\ calls' = [f \in Files |-> <<>>]
  /\ libs' = <<>>
  /\ requested' = {}
  /\ cleanStart' = CleanDisk
  /\ UNCHANGED <<opts, diskV, fs, counter, faults>>

\* ------------------------------------------------------------ specification

\* The option sets launched with.
Configs ==
  { [clientPackage |-> "none", installer |-> FALSE],
    [clientPackage |-> "url", installer |-> TRUE],
    [clientPackage |-> "path", installer |-> FALSE] }

PipelineInit ==
  /\ opts \in Configs
  /\ cleanStart = FALSE
  /\ profile \in (IF opts.installer THEN BOOLEAN ELSE {FALSE})
  /\ versionJson \in BOOLEAN
  /\ pc = "start"
  /\ run = 1
  /\ java = "none"
  /\ installerCode = "none"
  /\ steps = {}
  /\ emitted = {}
  /\ rootExists = FALSE
  /\ fs = [f \in Files |-> "absent"]
  /\ nativesDir = "absent"
  /\ version = "none"
  /\ versionFile = "none"
  /\ gv = "idle"
  /\ task = [f \in Items |-> "idle"]
  /\ calls = [f \in Files |-> <<>>]
  /\ counter = 0
  /\ libs = <<>>
  /\ requested = {}
  /\ faults = 0

\* An exception thrown in a request callback is uncaught: the process ends.
Crashed == gv = "threw"

PipelineNext ==
  /\ ~Crashed
  /\ \/ checkJava
     \/ MkdirRoot
     \/ ExtractPackageFetch
     \/ ExtractPackage
     \/ runInstaller
     \/ CallGetVersion
     \/ getVersionRead
     \/ getVersionManifest
     \/ getVersionDescriptor
     \/ AwaitVersion
     \/ getNatives
     \/ \E f \in NativeFiles : NativeTask(f)
     \/ NativesDone
     \/ getJar
     \/ JarDone
     \/ getClasses
     \/ \E f \in LibFiles : downloadToDirectory(f)
     \/ ClassesDone
     \/ getAssets
     \/ AssetIndexRead
     \/ \E f \in AssetFiles : AssetTask(f)
     \/ AssetsDone
     \/ Spawn
     \/ Relaunch
     \/ downloadAsync


\* ---------------------------------------------------------- rule evaluator

OSes == {"windows", "osx", "linux"}

\* Longest rules list of a library.
MaxRules == 2

\* A rule: {action, os?: {name}}; os = "none" stands for a rule without os clause.
Rules == [action : {"allow", "disallow"}, os : {"none", "osx", "windows", "linux"}]

RuleLists == UNION {[1..n -> Rules] : n \in 0..MaxRules}

Classifiers == {"natives-windows", "natives-linux", "natives-osx", "natives-macos"}

\* downloads.classifiers of the libraries considered: none, every platform, or macos only.
ClassifierMaps == {{}, Classifiers, {"natives-macos"}}

Libraries ==
  [hasRules : BOOLEAN, rules : RuleLists, artifact : BOOLEAN,
   hasClassifiers : BOOLEAN, classifiers : ClassifierMaps]

\* parseRule with the test of the two-rule branch negated (getOS() !== 'osx').
parseRuleTwoRulesNegated(l, o) ==
  IF l.hasRules
    THEN IF Len(l.rules) > 1
      THEN IF l.rules[1].action = "allow" /\ l.rules[2].action = "disallow"
             THEN IF l.rules[2].os = "none" THEN "throw"
                  ELSE IF l.rules[2].os = "osx"
                    THEN (IF o # "osx" THEN "true" ELSE "false")
                    ELSE "true"
             ELSE "true"
      ELSE IF Len(l.rules) = 0 THEN "throw"
           ELSE IF l.rules[1].action = "allow" /\ l.rules[1].os # "none"
             THEN (IF o # "osx" THEN "true" ELSE "false")
             ELSE "undefined"
    ELSE "false"

\* parseRule with the test of the single-rule branch negated (getOS() === 'osx').
parseRuleSingleNegated(l, o) ==
  IF l.hasRules
    THEN IF Len(l.rules) > 1
      THEN IF l.rules[1].action = "allow" /\ l.rules[2].action = "disallow"
             THEN IF l.rules[2].os = "none" THEN "throw"
                  ELSE IF l.rules[2].os = "osx"
                    THEN (IF o = "osx" THEN "true" ELSE "false")
                    ELSE "true"
             ELSE "true"
      ELSE IF Len(l.rules) = 0 THEN "throw"
           ELSE IF l.rules[1].action = "allow" /\ l.rules[1].os # "none"
             THEN (IF o = "osx" THEN "true" ELSE "false")
             ELSE "undefined"
    ELSE "false"

\* handler.js:223-239: parseRule(lib) on operating system o. The result is the
\* JavaScript value returned: "true", "false", "undefined" (no return reached),
\* or "throw" (a TypeError: rules[0] of an empty list, os.name of a rule without os).
parseRule(l, o) ==
  IF l.hasRules
    THEN IF Len(l.rules) > 1
      THEN IF l.rules[1].action = "allow" /\ l.rules[2].action = "disallow"
             THEN IF l.rules[2].os = "none" THEN "throw"
                  ELSE IF l.rules[2].os = "osx"
                    THEN (IF o = "osx" THEN "true" ELSE "false")
                    ELSE "true"
             ELSE "true"
      ELSE IF Len(l.rules) = 0 THEN "throw"
           ELSE IF l.rules[1].action = "allow" /\ l.rules[1].os # "none"
             THEN (IF o # "osx" THEN "true" ELSE "false")
             ELSE "undefined"
    ELSE "false"

\* JavaScript truthiness of parseRule's result.
Truthy(v) == v = "true"

\* handler.js:253-255: the classifier of the current OS; on osx natives-osx, else natives-macos.
NativeOf(l, o) ==
  IF o = "osx"
    THEN IF "natives-osx" \in l.classifiers THEN "natives-osx"
         ELSE IF "natives-macos" \in l.classifiers THEN "natives-macos" ELSE "undefined"
    ELSE IF o = "windows"
      THEN (IF "natives-windows" \in l.classifiers THEN "natives-windows" ELSE "undefined")
      ELSE (IF "natives-linux" \in l.classifiers THEN "natives-linux" ELSE "undefined")

\* handler.js:249-258, 270: getNatives on lib: a library without classifiers or
\* with a truthy parseRule is skipped; otherwise its classifier is pushed, and
\* an undefined one is dropped by the download loop.
getNativesFilter ==
  /\ native = "unset"
  /\ native' = IF ~lib.hasClassifiers THEN "skipped"
               ELSE IF parseRule(lib, os) = "throw" THEN "throw"
               ELSE IF Truthy(parseRule(lib, os)) THEN "skipped"
               ELSE IF NativeOf(lib, os) = "undefined" THEN "dropped"
               ELSE NativeOf(lib, os)
  /\ UNCHANGED <<os, lib, parsed>>

\* handler.js:458-460: getClasses on lib: kept when it has an artifact and
\* parseRule is not truthy.
getClassesFilter ==
  /\ native # "unset"
  /\ parsed = "unset"
  /\ parsed' = IF ~lib.artifact THEN "undefined"
               ELSE IF parseRule(lib, os) = "throw" THEN "throw"
               ELSE IF ~Truthy(parseRule(lib, os)) THEN "lib"
               ELSE "undefined"
  /\ UNCHANGED <<os, lib, native>>

RulesIdle ==
  /\ os = "linux"
  /\ lib = [hasRules |-> FALSE, rules |-> <<>>, artifact |-> TRUE,
            hasClassifiers |-> FALSE, classifiers |-> {}]
  /\ native = "unset"
  /\ parsed = "unset"

RulesInit ==
  /\ os \in OSes
  /\ lib \in {l \in Libraries : (~l.hasRules => l.rules = <<>>)
                                 /\ (~l.hasClassifiers => l.classifiers = {})}
  /\ native = "unset"
  /\ parsed = "unset"

RulesNext == getNativesFilter \/ getClassesFilter

\* ---------------------------------------------------- classpath composition

\* Longest path list handed to the composition.
MaxCp == 2

Paths == {"a.jar", "b.jar"}
McPath == "client.jar"
ForgeJar == "forge.jar"

PathLists == UNION {[1..n -> Paths] : n \in 0..MaxCp}

RECURSIVE cleanUpFrom(_, _, _)
\* handler.js:476-481: the loop of cleanUp from index i on, newArray so far.
cleanUpFrom(array, i, newArray) ==
  IF i > Len(array) THEN newArray
  ELSE IF \E j \in 1..Len(newArray) : newArray[j] = array[i]
    THEN cleanUpFrom(array, i + 1, newArray)
    ELSE cleanUpFrom(array, i + 1, Append(newArray, array[i]))

\* handler.js:475-482: cleanUp(array): the first occurrence of each element, in order.
cleanUp(array) == cleanUpFrom(array, 1, <<>>)

\* handler.js:447-466: what getClasses returns: the custom descriptor's library
\* paths, then the vanilla descriptor's.
getClassesResult(in) == in.customLibs \o in.vanillaLibs

\* The entries of list.join(separator): an empty list joins to the empty string,
\* which is one empty entry.
Joined(list) == IF list = <<>> THEN <<"">> ELSE list

\* launcher.js:108: overrides.classes || cleanUp(await getClasses(custom))
SetClasses ==
  /\ classes = <<"unset">>
  /\ classes' = IF cpIn.hasOverride THEN cpIn.overrideClasses
                ELSE cleanUp(getClassesResult(cpIn))
  /\ UNCHANGED <<cpIn, classPath>>

\* launcher.js:112-124: the string pushed after -cp, as its list of entries.
ComposeClassPath ==
  /\ classes # <<"unset">>
  /\ classPath = <<"unset">>
  /\ classPath' = IF cpIn.mode = "forge"
                    THEN <<ForgeJar>> \o Joined(cpIn.forgePaths) \o Joined(classes) \o <<McPath>>
                    ELSE Joined(classes) \o <<McPath>>
  /\ UNCHANGED <<cpIn, classes>>

ClassPathInputs ==
  {in \in [mode : {"vanilla", "custom", "forge"}, hasOverride : BOOLEAN,
           overrideClasses : PathLists, customLibs : PathLists,
           vanillaLibs : PathLists, forgePaths : PathLists] :
     /\ ~in.hasOverride => in.overrideClasses = <<>>
     /\ in.mode # "custom" => in.customLibs = <<>>
     /\ in.mode # "forge" => in.forgePaths = <<>>}

ClassPathIdle ==
  /\ cpIn = [mode |-> "vanilla", hasOverride |-> FALSE, overrideClasses |-> <<>>,
             customLibs |-> <<>>, vanillaLibs |-> <<>>, forgePaths |-> <<>>]
  /\ classes = <<"unset">>
  /\ classPath = <<"unset">>

ClassPathInit ==
  /\ cpIn \in ClassPathInputs
  /\ classes = <<"unset">>
  /\ classPath = <<"unset">>

ClassPathNext == SetClasses \/ ComposeClassPath

\* ------------------------------------------------------ argument synthesis

\* Longest token list of a descriptor, before padding.
MaxArgs == 3

\* handler.js:495: the thresholds below which the vanilla arguments are appended.
LegacyMinArgs == 5
ModernMinArgs == 11

\* A token: a string "s", a structured (object) entry "o", a number "n", or undefined "u".
Str(v) == [t |-> "s", v |-> v]
Obj == [t |-> "o", v |-> "rules"]
Num(v) == [t |-> "n", v |-> v]
Undef == [t |-> "u", v |-> ""]

\* handler.js:500-513: the keys of the substitution table.
Placeholders ==
  {"${auth_access_token}", "${auth_session}", "${auth_player_name}", "${auth_uuid}",
   "${user_properties}", "${user_type}", "${version_name}", "${assets_index_name}",
   "${game_directory}", "${assets_root}", "${game_assets}", "${version_type}"}

\* handler.js:490-493, 500-513: fields[key] for authorization {access_token: "T",
\* name: "Steve", uuid: "U", user_properties: "{}"}, version {number: "1.8.9",
\* type: "release"}, root "/mc" and asset index "1.8".
Fields(key, legacy) ==
  CASE key \in {"${auth_access_token}", "${auth_session}"} -> Str("T")
    [] key = "${auth_player_name}" -> Str("Steve")
    [] key = "${auth_uuid}" -> Str("U")
    [] key = "${user_properties}" -> Str("{}")
    [] key = "${user_type}" -> Str("mojang")
    [] key = "${version_name}" -> Str("1.8.9")
    [] key = "${assets_index_name}" -> Str("1.8")
    [] key = "${game_directory}" -> Str("/mc")
    [] key \in {"${assets_root}", "${game_assets}"} ->
         (IF legacy THEN Str("/mc/assets/legacy") ELSE Str("/mc/assets"))
    [] OTHER -> Str("release")

\* The tokens descriptors are built from in this model.
DescriptorTokens == {Str("--username"), Str("${auth_player_name}"), Obj}

\* A legacy descriptor's minecraftArguments holds strings only.
TokenLists(form) ==
  UNION {[1..n -> IF form = "legacy" THEN DescriptorTokens \ {Obj} ELSE DescriptorTokens] :
           n \in 0..MaxArgs}

\* Literal tokens appended to a modification's list, to reach the thresholds.
PadChoices == {0, 4, 10}
Pad(n) == [i \in 1..n |-> Str("--demo")]

\* handler.js:487-489: minecraftArguments.split(' ') of a legacy descriptor, or
\* arguments.game of a modern one.
GameArgs(d) == d.toks

\* handler.js:495: overrides.minArgs || isLegacy() ? 5 : 11 groups as
\* (overrides.minArgs || isLegacy()) ? 5 : 11; minArgs = 0 stands for unset.
minArgs(in) == IF in.minArgs # 0 \/ in.legacy THEN LegacyMinArgs ELSE ModernMinArgs

\* args.splice(index, 2): drop the entry at index and the one after it.
Splice2(a, i) == [j \in 1..(Len(a) - (IF i < Len(a) THEN 2 ELSE 1)) |->
                    IF j < i THEN a[j] ELSE a[j + 2]]

RECURSIVE substitute(_, _, _)
\* handler.js:515-520: the loop from index i on: an object entry is spliced out
\* with its successor, then the entry now at the index is replaced if it is a key.
substitute(a, i, legacy) ==
  IF i > Len(a) THEN a
  ELSE LET a1 == IF a[i].t = "o" THEN Splice2(a, i) ELSE a
           a2 == IF i <= Len(a1) /\ a1[i].t = "s" /\ a1[i].v \in Placeholders
                   THEN [a1 EXCEPT ![i] = Fields(a1[i].v, legacy)]
                   ELSE a1
       IN substitute(a2, i + 1, legacy)

\* handler.js:522-539: the tokens pushed for window, server and proxy.
Extras(in) ==
  (IF in.window = "none" THEN <<>>
   ELSE IF in.window = "fullscreen" THEN <<Str("--fullscreen")>>
   ELSE <<Str("--width"), Num("854"), Str("--height"), Num("480")>>)
  \o (IF in.server THEN <<Str("--server"), Str("host"), Str("--port"), Str("25565")>> ELSE <<>>)
  \o (IF in.proxy
        THEN <<Str("--proxyHost"), Str("phost"), Str("--proxyPort"), Str("8080"),
               Str("--proxyUser"), Undef, Str("--proxyPass"), Undef>>
        ELSE <<>>)

\* handler.js:484-543: getLaunchOptions(modification).
getLaunchOptionsOf(in) ==
  LET type == IF in.hasMod THEN in.modification ELSE in.version
      args0 == GameArgs(type)
      args1 == IF Len(args0) < minArgs(in) THEN args0 \o GameArgs(in.version) ELSE args0
      args2 == substitute(args1, 1, in.legacy)
  IN args2 \o Extras(in) \o in.customLaunchArgs

getLaunchOptions ==
  /\ launchOptions = <<Undef>>
  /\ launchOptions' = getLaunchOptionsOf(argIn)
  /\ UNCHANGED argIn

\* A legacy descriptor has a non-empty minecraftArguments string.
Descriptors == {d \in [form : {"legacy", "modern"}, toks : TokenLists("modern")] :
                  /\ d.toks \in TokenLists(d.form)
                  /\ d.form = "legacy" => d.toks # <<>>}

\* A modification's token list may be padded with literals.
Modifications == {[form |-> d.form, toks |-> d.toks \o Pad(n)] : d \in Descriptors, n \in PadChoices}

NoModification == [form |-> "modern", toks |-> <<>>]

CustomLaunchArgs == {<<>>, <<Str("--quick")>>, <<Str("${auth_player_name}")>>}

ArgInputs ==
  {in \in [hasMod : BOOLEAN, modification : Modifications \cup {NoModification},
           version : Descriptors, legacy : BOOLEAN, minArgs : {0, 2},
           window : {"none", "fullscreen", "size"}, server : BOOLEAN, proxy : BOOLEAN,
           customLaunchArgs : CustomLaunchArgs] :
     /\ in.hasMod <=> in.modification # NoModification
     /\ in.legacy => in.version.form = "legacy"
     /\ in.window = "fullscreen" <=> in.server
     /\ in.server <=> in.proxy}

ArgsIdle ==
  /\ argIn = [hasMod |-> FALSE, modification |-> NoModification,
              version |-> [form |-> "modern", toks |-> <<>>], legacy |-> FALSE, minArgs |-> 0,
              window |-> "none", server |-> FALSE, proxy |-> FALSE, customLaunchArgs |-> <<>>]
  /\ launchOptions = <<Undef>>

ArgsInit ==
  /\ argIn \in ArgInputs
  /\ launchOptions = <<Undef>>

ArgsNext == getLaunchOptions

\* ------------------------------------------------------------ forge layering

\* What options.forge names: nothing, a legacy universal jar with a
\* version.json, a jar with neither version.json nor install_profile.json, or a
\* modern installer jar (one with install_profile.json).
ForgeKinds == {"none", "legacy", "bare", "installer"}

\* The options and files launch's forge and custom steps read.
ForgeInputs ==
  [forge : ForgeKinds,
   versionCustom : BOOLEAN,     \* options.version.custom is set
   customJson : BOOLEAN,        \* versions/<custom>/<custom>.json exists and parses
   overrideClasses : BOOLEAN]   \* options.overrides.classes is set

\* handler.js:304-377: the result of getForgeDependenciesLegacy: false for an
\* installer jar, null when version.json cannot be extracted, else {paths, forge}.
getForgeDependenciesLegacy(in) ==
  CASE in.forge = "installer" -> "false"
    [] in.forge = "bare" -> "null"
    [] OTHER -> "deps"

\* handler.js:379-397: getForgedWrapped returns the async function itself; it
\* does not call it, so awaiting the result yields that function and the body
\* (the ForgeWrapper subprocess, the read of forge/<id>/version.json) does not run.
getForgedWrapped == "function"

\* launcher.js:78-85: the forge step.
ForgeStep ==
  /\ fpc = "forge"
  /\ IF forgeIn.forge = "none"
       THEN forge' = "null" /\ custom' = "null"
       ELSE /\ forge' = getForgeDependenciesLegacy(forgeIn)
            /\ custom' = IF getForgeDependenciesLegacy(forgeIn) = "false" THEN getForgedWrapped
                                                                        ELSE "null"
  /\ fpc' = "custom"
  /\ UNCHANGED <<forgeIn, forgeWrapper, overlay, mainClass, modification>>

\* launcher.js:86-89: custom = custom || JSON.parse(the custom version's JSON);
\* the read raises when that file is missing.
CustomStep ==
  /\ fpc = "custom"
  /\ IF forgeIn.versionCustom \/ custom # "null"
       THEN IF custom # "null"
              THEN custom' = custom /\ fpc' = "classes"
              ELSE IF forgeIn.customJson
                     THEN custom' = "customJson" /\ fpc' = "classes"
                     ELSE custom' = custom /\ fpc' = "raised"
       ELSE custom' = custom /\ fpc' = "classes"
  /\ UNCHANGED <<forgeIn, forge, forgeWrapper, overlay, mainClass, modification>>

\* handler.js:446-456: the overlay getClasses(classJson) puts before the vanilla
\* libraries: none without classJson; classJson.libraries of a descriptor; a
\* function has no `libraries`, and downloadToDirectory's libraries.map raises.
getClassesOverlay(classJson) ==
  CASE classJson = "null" -> "none"
    [] classJson = "function" -> "throw"
    [] OTHER -> classJson

\* launcher.js:108: classes = overrides.classes || cleanUp(await getClasses(custom))
ClassesStep ==
  /\ fpc = "classes"
  /\ IF forgeIn.overrideClasses
       THEN overlay' = "override" /\ fpc' = "classPath"
       ELSE IF getClassesOverlay(custom) = "throw"
              THEN overlay' = overlay /\ fpc' = "raised"
              ELSE overlay' = getClassesOverlay(custom) /\ fpc' = "classPath"
  /\ UNCHANGED <<forgeIn, forge, custom, forgeWrapper, mainClass, modification>>

\* launcher.js:112-124: the main class pushed after the classpath:
\* forge.forge.mainClass with forge dependencies, else (custom || versionFile).mainClass,
\* which is undefined on a function.
ClassPathStep ==
  /\ fpc = "classPath"
  /\ mainClass' = IF forge = "deps" THEN "forge"
                  ELSE IF custom = "null" THEN "vanilla"
                  ELSE IF custom = "function" THEN "undefined"
                  ELSE custom
  /\ fpc' = "options"
  /\ UNCHANGED <<forgeIn, forge, custom, forgeWrapper, overlay, modification>>

\* launcher.js:130: modification = forge ? forge.forge : null || custom ? custom : null
Modification == IF forge = "deps" THEN "forge" ELSE custom

\* launcher.js:130-131, handler.js:485-489: getLaunchOptions(modification) reads
\* type.minecraftArguments and type.arguments.game of modification || this.version;
\* on a function neither is there and the read raises.
OptionsStep ==
  /\ fpc = "options"
  /\ IF Modification = "function"
       THEN modification' = modification /\ fpc' = "raised"
       ELSE modification' = (IF Modification = "null" THEN "vanilla" ELSE Modification)
            /\ fpc' = "spawn"
  /\ UNCHANGED <<forgeIn, forge, custom, forgeWrapper, overlay, mainClass>>

\* launcher.js:133-143: the game is spawned with the composed arguments.
SpawnStep ==
  /\ fpc = "spawn"
  /\ fpc' = "spawned"
  /\ UNCHANGED <<forgeIn, forge, custom, forgeWrapper, overlay, mainClass, modification>>

ForgeIdle ==
  /\ forgeIn = [forge |-> "none", versionCustom |-> FALSE, customJson |-> FALSE,
                overrideClasses |-> FALSE]
  /\ fpc = "forge"
  /\ forge = "null"
  /\ custom = "null"
  /\ forgeWrapper = "notrun"
  /\ overlay = "unset"
  /\ mainClass = "unset"
  /\ modification = "unset"

ForgeInit ==
  /\ forgeIn \in ForgeInputs
  /\ fpc = "forge"
  /\ forge = "null"
  /\ custom = "null"
  /\ forgeWrapper = "notrun"
  /\ overlay = "unset"
  /\ mainClass = "unset"
  /\ modification = "unset"

ForgeNext == ForgeStep \/ CustomStep \/ ClassesStep \/ ClassPathStep \/ OptionsStep \/ SpawnStep

\* ------------------------------------------- downloadToDirectory, in parallel

\* Entries of the list handed to downloadToDirectory.
MaxLibraries == 3

\* An entry of `libraries`: undefined (a library getClasses' filter left out), a
\* library whose jar is on disk, or one whose jar has to be downloaded.
LibraryEntries == {"undefined", "present", "missing"}

\* The path pushed for the entry at index i.
LibraryPath(i) == <<"lib", i>>

\* handler.js:433-439: counter++, progress, libs.push(path).
LibraryPush(i) ==
  /\ counter' = counter + 1
  /\ libs' = Append(libs, LibraryPath(i))
  /\ libTask' = [libTask EXCEPT ![i] = "returned"]

\* handler.js:423-431: `await exists(...)` of entry i returns: a jar that is
\* there is pushed at once, a missing one is downloaded first.
LibraryExists(i) ==
  /\ libTask[i] = "exists"
  /\ IF libraries[i] = "present"
       THEN LibraryPush(i)
       ELSE /\ libTask' = [libTask EXCEPT ![i] = "download"]
            /\ UNCHANGED <<counter, libs>>
  /\ UNCHANGED libraries

\* handler.js:427-439: `await this.downloadAsync(...)` of entry i returns.
LibraryDownloaded(i) ==
  /\ libTask[i] = "download"
  /\ LibraryPush(i)
  /\ UNCHANGED libraries

\* handler.js:440-443: Promise.all returns, counter = 0, return libs.
LibrariesReturn ==
  /\ \A i \in 1..MaxLibraries : libTask[i] = "returned"
  /\ libTask' = [i \in 1..MaxLibraries |-> "settled"]
  /\ counter' = 0
  /\ UNCHANGED <<libraries, libs>>

\* handler.js:409-423: the map callback of each entry runs to its first await:
\* an undefined entry returns at once, the others await exists(...).
LibraryTasks(ls) == [i \in 1..MaxLibraries |-> IF ls[i] = "undefined" THEN "returned" ELSE "exists"]

LibrariesIdle ==
  /\ libraries = <<>>
  /\ libTask = <<>>

LibrariesInit ==
  /\ libraries \in [1..MaxLibraries -> LibraryEntries]
  /\ libTask = LibraryTasks(libraries)

LibrariesNext ==
  \/ \E i \in 1..MaxLibraries : LibraryExists(i)
  \/ \E i \in 1..MaxLibraries : LibraryDownloaded(i)
  \/ LibrariesReturn

\* ------------------------------------------------------- progress counter

\* Launches made in one process (they share the module-level counter), and the
\* `total` of every phase.
NumLaunches == 2
PhaseTotal == 2

Launches == 1..NumLaunches

\* The phases that count their tasks with `counter`, in the order launch runs them.
Phases == {"natives", "forge", "classes", "assets", "assets-copy"}

\* launcher.js:71-127, handler.js:186: the phases that may follow phase p:
\* the forge phase runs with options.forge, the copy phase for legacy versions.
NextPhases(p) ==
  CASE p = "natives" -> {"forge", "classes"}
    [] p = "forge" -> {"classes"}
    [] p = "classes" -> {"assets"}
    [] p = "assets" -> {"assets-copy", "done"}
    [] OTHER -> {"done"}

\* launcher.js:13, 71: launch l is called and comes to its first phase.
LaunchCalled(l) ==
  /\ phase[l] = "idle"
  /\ phase' = [phase EXCEPT ![l] = "natives"]
  /\ UNCHANGED <<counter, phaseRunning, pending, progressTask>>

\* handler.js:263-269, 326-334, 409, 161-167, 189-195: a phase starts: the
\* progress event with task: 0 (the classes phase has none), then one task per
\* entry under Promise.all. The counter is not written.
PhaseStart(l) ==
  /\ phase[l] \in Phases
  /\ ~phaseRunning[l]
  /\ phaseRunning' = [phaseRunning EXCEPT ![l] = TRUE]
  /\ pending' = [pending EXCEPT ![l] = PhaseTotal]
  /\ progressTask' = [progressTask EXCEPT ![l] = 0]
  /\ UNCHANGED <<counter, phase>>

\* handler.js:287-292, 355-356, 365-370, 433-438, 175-180, 210-215: a task of the
\* phase finishes: counter++ and a progress event with task: counter. The tasks
\* of a phase whose launch has raised run on.
PhaseTaskDone(l) ==
  /\ phaseRunning[l]
  /\ pending[l] > 0
  /\ counter' = counter + 1
  /\ progressTask' = [progressTask EXCEPT ![l] = counter + 1]
  /\ pending' = [pending EXCEPT ![l] = @ - 1]
  /\ UNCHANGED <<phase, phaseRunning>>

\* handler.js:270, 337, 347, 172: a task that returns before counter++: an
\* undefined native, a forge library left out, an asset that needs no fetch.
PhaseTaskSkipped(l) ==
  /\ phaseRunning[l]
  /\ phase[l] \in {"natives", "forge", "assets"}
  /\ pending[l] > 0
  /\ pending' = [pending EXCEPT ![l] = @ - 1]
  /\ UNCHANGED <<counter, phase, phaseRunning, progressTask>>

\* handler.js:208: copyFile of an object rejects (its source file is missing):
\* Promise.all rejects, getAssets and launch reject; `counter = 0` (handler.js:218)
\* is not reached.
PhaseTaskRaises(l) ==
  /\ phaseRunning[l]
  /\ phase[l] = "assets-copy"
  /\ pending[l] > 0
  /\ pending' = [pending EXCEPT ![l] = @ - 1]
  /\ phase' = [phase EXCEPT ![l] = "raised"]
  /\ UNCHANGED <<counter, phaseRunning, progressTask>>

\* handler.js:297, 373, 441, 183, 218: Promise.all has returned: counter = 0, and
\* launch goes on towards its next phase.
PhaseEnd(l) ==
  /\ phase[l] \in Phases
  /\ phaseRunning[l]
  /\ pending[l] = 0
  /\ counter' = 0
  /\ phaseRunning' = [phaseRunning EXCEPT ![l] = FALSE]
  /\ \E p \in NextPhases(phase[l]) : phase' = [phase EXCEPT ![l] = p]
  /\ UNCHANGED <<pending, progressTask>>

ProgressIdle ==
  /\ phase = <<>>
  /\ phaseRunning = <<>>
  /\ pending = <<>>
  /\ progressTask = <<>>

\* handler.js:10: let counter = 0, when the module is loaded.
ProgressInit ==
  /\ phase = [l \in Launches |-> "idle"]
  /\ phaseRunning = [l \in Launches |-> FALSE]
  /\ pending = [l \in Launches |-> 0]
  /\ progressTask = [l \in Launches |-> 0]

ProgressNext ==
  \E l \in Launches :
    \/ LaunchCalled(l)
    \/ PhaseStart(l)
    \/ PhaseTaskDone(l)
    \/ PhaseTaskSkipped(l)
    \/ PhaseTaskRaises(l)
    \/ PhaseEnd(l)

\* ----------------------------------------------------------- specifications

Init ==
  PipelineInit /\ RulesIdle /\ ClassPathIdle /\ ArgsIdle /\ ForgeIdle /\ LibrariesIdle /\ ProgressIdle
Next == PipelineNext /\ UNCHANGED <<ruleVars, cpVars, argVars, forgeVars, libraryVars, progressVars>>
Spec == Init /\ [][Next]_vars

PipelineIdle ==
  /\ opts = [clientPackage |-> "none", installer |-> FALSE]
  /\ cleanStart = FALSE
  /\ profile = FALSE
  /\ versionJson = FALSE
  /\ pc = "start"
  /\ run = 1
  /\ java = "none"
  /\ installerCode = "none"
  /\ steps = {}
  /\ emitted = {}
  /\ rootExists = FALSE
  /\ fs = [f \in Files |-> "absent"]
  /\ nativesDir = "absent"
  /\ version = "none"
  /\ versionFile = "none"
  /\ gv = "idle"
  /\ task = [f \in Items |-> "idle"]
  /\ calls = [f \in Files |-> <<>>]
  /\ counter = 0
  /\ libs = <<>>
  /\ requested = {}
  /\ faults = 0

InitRules ==
  PipelineIdle /\ RulesInit /\ ClassPathIdle /\ ArgsIdle /\ ForgeIdle /\ LibrariesIdle /\ ProgressIdle
NextRules == RulesNext /\ UNCHANGED <<pipelineVars, cpVars, argVars, forgeVars, libraryVars, progressVars>>
SpecRules == InitRules /\ [][NextRules]_vars

InitClassPath ==
  PipelineIdle /\ RulesIdle /\ ClassPathInit /\ ArgsIdle /\ ForgeIdle /\ LibrariesIdle /\ ProgressIdle
NextClassPath ==
  ClassPathNext /\ UNCHANGED <<pipelineVars, ruleVars, argVars, forgeVars, libraryVars, progressVars>>
SpecClassPath == InitClassPath /\ [][NextClassPath]_vars

InitArgs ==
  PipelineIdle /\ RulesIdle /\ ClassPathIdle /\ ArgsInit /\ ForgeIdle /\ LibrariesIdle /\ ProgressIdle
NextArgs == ArgsNext /\ UNCHANGED <<pipelineVars, ruleVars, cpVars, forgeVars, libraryVars, progressVars>>
SpecArgs == InitArgs /\ [][NextArgs]_vars

InitForge ==
  PipelineIdle /\ RulesIdle /\ ClassPathIdle /\ ArgsIdle /\ ForgeInit /\ LibrariesIdle /\ ProgressIdle
NextForge == ForgeNext /\ UNCHANGED <<pipelineVars, ruleVars, cpVars, argVars, libraryVars, progressVars>>
SpecForge == InitForge /\ [][NextForge]_vars

\* downloadToDirectory alone: of the launch pipeline's state it uses the libs
\* array and the progress counter.
InitLibraries ==
  PipelineIdle /\ RulesIdle /\ ClassPathIdle /\ ArgsIdle /\ ForgeIdle /\ LibrariesInit /\ ProgressIdle
NextLibraries ==
  /\ LibrariesNext
  /\ UNCHANGED <<launchV, resolverV, diskV, fs, task, calls, requested, faults>>
  /\ UNCHANGED <<ruleVars, cpVars, argVars, forgeVars, progressVars>>
SpecLibraries == InitLibraries /\ [][NextLibraries]_vars

\* The phases of several launches in one process: of the launch pipeline's
\* state they share the module-level counter.
InitProgress ==
  PipelineIdle /\ RulesIdle /\ ClassPathIdle /\ ArgsIdle /\ ForgeIdle /\ LibrariesIdle /\ ProgressInit
NextProgress ==
  /\ ProgressNext
  /\ UNCHANGED <<launchV, resolverV, diskV, fs, task, calls, libs, requested, faults>>
  /\ UNCHANGED <<ruleVars, cpVars, argVars, forgeVars, libraryVars>>
SpecProgress == InitProgress /\ [][NextProgress]_vars

\* ------------------------------------------------- properties of the pipeline

\* The downloads started by the materializers (not the client package's).
MaterializerCalls == {k \in AllCalls : k[1] # PackageFile}

\* C1: the game is spawned only when every fetch a materializer started has
\* settled: at the spawn no such request is in flight or waiting, and none is
\* still writing its file (a 404 reported earlier included).
C1_SpawnAfterSettled ==
  [][(pc # "spawned" /\ pc' = "spawned")
       => \A k \in MaterializerCalls : calls[k[1]][k[2]].req \in {"ended", "failed"}]_vars

\* C2: when the Java probe fails, launch emits close(1), returns without a spawn
\* and performs no later step: no root directory, no package or installer step,
\* no descriptor resolution, no fetch.
C2_JavaFailureAborts ==
  java = "failed" =>
    /\ pc = "aborted"
    /\ "close1" \in emitted
    /\ steps = {"checkJava"}
    /\ installerCode = "none"
    /\ gv = "idle" /\ versionFile = "none"
    /\ requested = {}
    /\ AllCalls = {}

C2_Witness == java = "failed" /\ pc = "aborted" /\ "close1" \in emitted

\* The fetches the idempotence property names.
PipelineFetches == {"manifest", "descriptor", "native", "jar", "lib", "index", "asset"}

\* C3: a second launch on the disk of a complete first launch performs no
\* network fetch.
C3_SecondRunNoFetch ==
  (run = 2 /\ cleanStart) => requested \cap PipelineFetches = {}

\* C4: when getAssets has completed without raising, every object of the index
\* is on disk with the SHA-1 of its name.
C4_AssetsContentAddressed ==
  pc = "launchOptions" => \A f \in AssetFiles : fs[f] = "good"

\* The calls made as retries of call i on file f.
RetriesOf(f, i) == {j \in CallIds(f) : calls[f][j].parent = i}

\* C9: a fetch called with retry = true makes at most one further attempt, made
\* with retry = false; a fetch called with retry = false makes none.
C9_RetryDepthOne ==
  \A k \in AllCalls :
    LET c == calls[k[1]][k[2]] IN
    /\ Cardinality(RetriesOf(k[1], k[2])) <= (IF c.retry THEN 1 ELSE 0)
    /\ c.parent # 0 => ~c.retry

\* C10: at every moment at most maxSockets requests of the launch are in flight,
\* the resolver's manifest and descriptor requests included.
C10_InFlightBounded == InFlight <= MaxSockets

\* --------------------------------------------- properties of the pure parts

\* No path occurs twice in seq (the empty entries an empty list joins to are no paths).
NoDuplicates(seq) == \A i, j \in 1..Len(seq) : (i # j /\ seq[i] # "") => seq[i] # seq[j]

\* C5: the classpath passed after -cp holds no entry twice, in every layering
\* mode and when overrides.classes supplies the list.
C5_ClassPathNoDuplicates ==
  classPath # <<"unset">> => NoDuplicates(classPath)

IsPlaceholder(tok) == tok.t = "s" /\ tok.v \in Placeholders

\* C6: no token of the synthesized argument list is a placeholder of the
\* substitution table, for every descriptor shape and with customLaunchArgs appended.
C6_NoPlaceholderLeft ==
  launchOptions # <<Undef>> =>
    \A i \in 1..Len(launchOptions) : ~IsPlaceholder(launchOptions[i])

\* The rules [allow, disallow with os.name = "osx"].
AllowThenDisallowOsx(l) ==
  /\ l.hasRules
  /\ l.rules = <<[action |-> "allow", os |-> "none"], [action |-> "disallow", os |-> "osx"]>>

\* The rules [allow with an os clause].
SingleAllowWithOs(l) ==
  /\ l.hasRules
  /\ Len(l.rules) = 1
  /\ l.rules[1].action = "allow"
  /\ l.rules[1].os # "none"

\* Both callers have dealt with lib.
RulesApplied == native # "unset" /\ parsed # "unset"

\* lib is included: its artifact (when it has one) is kept for the classpath and
\* its native for the current OS (when it has one) is materialized.
Included ==
  /\ lib.artifact => parsed = "lib"
  /\ (lib.hasClassifiers /\ NativeOf(lib, os) # "undefined") => native = NativeOf(lib, os)

\* lib is excluded: neither kept for the classpath nor its native selected.
Excluded ==
  /\ parsed = "undefined"
  /\ native = "skipped"

\* A library with an artifact and a native for every platform.
FullLibrary(l) == l.artifact /\ l.hasClassifiers /\ l.classifiers = Classifiers

\* C7 as claimed: with rules [allow, disallow osx] the library is included on
\* osx and excluded on windows and linux.
C7_Claimed ==
  (RulesApplied /\ AllowThenDisallowOsx(lib) /\ FullLibrary(lib)) =>
    IF os = "osx" THEN Included ELSE Excluded

\* C7 as amended: with rules [allow, disallow osx] the library is excluded on
\* osx and included on windows and linux.
C7_AllowDisallowOsx ==
  (RulesApplied /\ AllowThenDisallowOsx(lib)) =>
    IF os = "osx" THEN (lib.hasClassifiers => Excluded) /\ parsed = "undefined"
                  ELSE Included

C7_Witness ==
  /\ RulesApplied /\ AllowThenDisallowOsx(lib) /\ FullLibrary(lib)
  /\ os = "osx" /\ parsed = "undefined" /\ native = "skipped"

\* C8 as claimed: with the single rule [allow with an os clause] the library is
\* included iff the OS is not osx.
C8_Claimed ==
  (RulesApplied /\ SingleAllowWithOs(lib) /\ FullLibrary(lib)) =>
    IF os # "osx" THEN Included ELSE Excluded

\* C8 as amended: with the single rule [allow with an os clause] the library is
\* included iff the OS is osx: excluded on windows and linux.
C8_SingleAllowWithOs ==
  (RulesApplied /\ SingleAllowWithOs(lib)) =>
    IF os = "osx" THEN Included
                  ELSE (lib.hasClassifiers => Excluded) /\ parsed = "undefined"

C8_Witness ==
  /\ RulesApplied /\ SingleAllowWithOs(lib) /\ FullLibrary(lib)
  /\ os = "linux" /\ parsed = "undefined" /\ native = "skipped"

\* ------------------------------------------- properties of the version resolver

\* C11: when the local descriptor JSON exists and parses, the resolver returns
\* that descriptor and issues no request to the version-manifest endpoint.
C11_LocalDescriptorNoManifest ==
  [][(gv = "read" /\ versionJson) => (versionFile' = "local" /\ "manifest" \notin requested')]_vars

\* launch has received getVersion's result and gone on to the later steps.
ResolverReturned ==
  pc \in {"getNatives", "natives", "jarCheck", "jar", "classes", "classesRun", "assets", "index",
          "indexRead", "assetsRun", "launchOptions"}

\* C12: within one launch, once the resolver has returned a descriptor to
\* launch, handler.version is not replaced while the later steps run.
C12_DescriptorAssignedOnce ==
  [][(ResolverReturned /\ versionFile \in {"local", "remote"}) => version' = version]_vars

\* The launch pipeline under the scheduling of the event loop: a continuation
\* that is ready runs, and a request that is out gets an answer or an error.
SpecLive == Init /\ [][Next]_vars /\ WF_vars(Next)

\* The manifest has no entry for version.number, or a request of the resolver failed.
ManifestFails == gv = "threw" \/ (gv = "done" /\ version # "remote")

\* C13: without a local descriptor JSON and with a manifest entry for
\* version.number, the resolver eventually requests the manifest and the entry's
\* url and returns the parsed descriptor to launch, which proceeds.
C13_RemoteResolution ==
  (gv = "read" /\ ~versionJson) ~> ((versionFile = "remote" /\ pc # "awaitVersion") \/ ManifestFails)

\* C14: when the descriptor is found neither locally nor through the manifest,
\* resolution ends in a failure that is fatal to the launch: the resolver does
\* not stay pending for ever and hands no value but a descriptor to the later steps.
C14_UnresolvableIsFatal ==
  /\ [](ResolverReturned => versionFile \in {"local", "remote"})
  /\ (gv = "read" /\ ~versionJson) ~> (pc = "raised" \/ versionFile \in {"local", "remote"})

\* ------------------------------------------ properties of the materializers

\* C15: when the natives directory exists and is not empty at the start of the
\* native phase, the phase is skipped: nothing is downloaded, verified, extracted
\* or deleted and the directory is left as it was.
C15_NativePhaseSkipped ==
  [][(pc = "getNatives" /\ pc' = "natives" /\ nativesDir = "extracted")
       => /\ calls' = calls
          /\ fs' = fs
          /\ nativesDir' = nativesDir
          /\ \A f \in NativeFiles : task'[f] = "done"]_vars

\* getNatives has returned to launch.
NativePhaseFinished ==
  pc \in {"jarCheck", "jar", "classes", "classesRun", "assets", "index", "indexRead", "assetsRun",
          "launchOptions", "spawned"}

\* No download of a native archive is running.
NativeCallsSettled ==
  \A f \in NativeFiles : \A i \in CallIds(f) : CallSettled(calls[f][i])

\* C16: when the native phase has finished, no downloaded native archive
\* remains in the natives directory.
C16_NoArchiveRemains ==
  (NativePhaseFinished /\ NativeCallsSettled) => \A f \in NativeFiles : fs[f] = "absent"

\* The fetch of object f has failed with its retries exhausted: every attempt
\* ended in a transport error and the file does not have the object's hash.
AssetFetchFailed(f) ==
  /\ task[f] = "done"
  /\ Len(calls[f]) > 0
  /\ \A i \in CallIds(f) : calls[f][i].req = "failed"
  /\ fs[f] # "good"

\* C17: when the fetch of an asset object has failed with all retries
\* exhausted, an error event is emitted before the launch proceeds.
C17_AssetFailureDetectable ==
  (pc \in {"launchOptions", "spawned"} /\ \E f \in AssetFiles : AssetFetchFailed(f))
    => "error" \in emitted

\* The steps of launch that follow the installer.
StepsAfterInstaller == {"getVersion", "getNatives", "getJar", "getClasses", "getAssets", "spawn"}

\* C18: a non-zero exit code of the installer is fatal: launch does not go on
\* to descriptor resolution, materialization or the spawn.
C18_InstallerFailureFatal ==
  installerCode = "1" => (steps \cap StepsAfterInstaller = {} /\ pc # "spawned")

\* C20: a fetch answered with status 404 reports not-found and writes nothing:
\* once the call has settled, no file is at its destination because of it.
C20_NotFoundWritesNothing ==
  \A f \in Files :
    (/\ run = 1
     /\ Len(calls[f]) = 1
     /\ calls[f][1].val = "false"
     /\ CallSettled(calls[f][1])
     /\ calls[f][1].live) => fs[f] = "absent"

\* ------------------------------------------------ properties of forge layering

\* C19: with a modern installer jar, the ForgeWrapper subprocess has been
\* invoked and has completed before the classpath is composed, and the
\* descriptor it leaves at forge/<id>/version.json is the custom descriptor
\* behind the classpath overlay, the main class and the game arguments.
C19_ForgeWrapperOverlay ==
  forgeIn.forge = "installer" =>
    /\ fpc \in {"classes", "classPath", "options", "spawn", "spawned"}
         => forgeWrapper = "done" /\ custom = "wrapperJson"
    /\ fpc = "spawned"
         => overlay = "wrapperJson" /\ mainClass = "wrapperJson" /\ modification = "wrapperJson"

\* ---------------------------------------- properties of downloadToDirectory

RECURSIVE InputOrder(_, _)
\* The paths of the entries of ls from index i on that are libraries, in list order.
InputOrder(ls, i) ==
  IF i > Len(ls) THEN <<>>
  ELSE (IF ls[i] = "undefined" THEN <<>> ELSE <<LibraryPath(i)>>) \o InputOrder(ls, i + 1)

\* C21: the list downloadToDirectory returns is in the order of its input
\* list, whatever the order in which the existence checks and downloads finish.
C21_LibsInInputOrder ==
  (libTask # <<>> /\ \A i \in 1..MaxLibraries : libTask[i] = "settled")
    => libs = InputOrder(libraries, 1)

\* ------------------------------------------ properties of the native task

\* C22: a native archive whose SHA-1 mismatches after the download is
\* downloaded once more, and one that still mismatches is a failed fetch: the
\* task of an archive ends as a success (extraction, removal, counter++ and a
\* progress event) only for an archive with the descriptor's sha1.
C22_ExtractedArchivesVerified ==
  [][\A f \in NativeFiles : (task[f] \in {"dl1", "dl2"} /\ task'[f] = "done") => fs[f] = "good"]_vars

\* --------------------------------------- properties of argument synthesis

\* The descriptor getLaunchOptions takes the arguments from (handler.js:485).
ArgType == IF argIn.hasMod THEN argIn.modification ELSE argIn.version

\* C23: after argument synthesis from a modern descriptor, no structured
\* (non-string) arguments.game entry is left in the game token list, however
\* the structured entries are arranged in the descriptor's list.
C23_NoStructuredEntryLeft ==
  (launchOptions # <<Undef>> /\ ArgType.form = "modern" /\ argIn.version.form = "modern")
    => \A i \in 1..Len(launchOptions) : launchOptions[i].t # "o"

\* The threshold as claimed: overrides.minArgs when set, else 5 for legacy-asset
\* versions and 11 for the others.
ClaimedThreshold(in) ==
  IF in.minArgs # 0 THEN in.minArgs
  ELSE IF in.legacy THEN LegacyMinArgs ELSE ModernMinArgs

\* The list synthesized when the vanilla arguments are appended exactly below
\* the claimed threshold.
ClaimedLaunchOptions(in) ==
  LET args0 == GameArgs(ArgType)
      args1 == IF Len(args0) < ClaimedThreshold(in) THEN args0 \o GameArgs(in.version) ELSE args0
  IN substitute(args1, 1, in.legacy) \o Extras(in) \o in.customLaunchArgs

\* C25: the vanilla descriptor's arguments are appended exactly when the token
\* count of the modification is below the threshold, which is overrides.minArgs
\* when set and else 5 for legacy-asset versions and 11 for the others.
C25_AppendBelowThreshold ==
  launchOptions # <<Undef>> => launchOptions = ClaimedLaunchOptions(argIn)

\* -------------------------------------- properties of the progress counter

\* C24: the progress counter is zero at the start of every phase, so the task
\* values of a phase's progress events never exceed its total, for any sequence
\* of launches in one process: after a launch that raised in the middle of a
\* phase, and for launches whose phases overlap.
C24_CounterZeroAtPhaseStart ==
  /\ [][\A l \in Launches : (~phaseRunning[l] /\ phaseRunning'[l]) => counter = 0]_vars
  /\ [](\A l \in Launches : progressTask[l] <= PhaseTotal)

====
